---------------------------- MODULE Spec2Model ----------------------------
(***************************************************************************)
(* Hashcash stamps (src/src/main.rs): the Stamp record, its canonical text *)
(* form (Display / TryFrom<String>), the proof-of-work search (mint) and   *)
(* the validation predicate (check).                                       *)
(*                                                                         *)
(* Representation.  A Rust String / &str is a sequence of one-character    *)
(* strings, a Vec<u8> a sequence of numbers 0..255.  A usize is the        *)
(* machine word itself: a sequence of UsizeBits bits, most significant     *)
(* first, so that `counter += 1` keeps its width.  Option<T> is <<>>       *)
(* (None) or <<x>> (Some(x)).  Result<T, E> is [ok |-> TRUE, val |-> _],   *)
(* [ok |-> FALSE, err |-> _]; a panic (an unwrap of an Err) is the third   *)
(* outcome [ok |-> FALSE, panic |-> TRUE, err |-> _].                      *)
(* A DateTime<Utc> is [days, secs]: days since 1970-01-01 and the second   *)
(* of the day; a chrono Duration is a number of seconds.                   *)
(***************************************************************************)
EXTENDS Integers, Sequences, FiniteSets, TLC

(***************************************************************************)
(* Bounds of the model (not program constants).                            *)
(***************************************************************************)
\* mint's loop is followed for at most this many iterations per call
MaxMintSteps == 3
\* the clock is advanced at most this many times in one behaviour
MaxTicks == 2

(***************************************************************************)
(* Program constants.                                                      *)
(***************************************************************************)
\* counter: usize (a 64-bit target)
UsizeBits == 64
\* requested_bits: u8
U8Max == 255
\* rand::thread_rng().sample_iter(&Standard).take(16)
SaltLen == 16
\* sha1_smol: the digest is 20 bytes, rendered as 160 binary digits
DigestBytes == 20
\* parts.len() < 6
MinParts == 6

(***************************************************************************)
(* Results and options.                                                    *)
(***************************************************************************)
Ok(v) == [ok |-> TRUE, val |-> v]

Err(e) == [ok |-> FALSE, panic |-> FALSE, err |-> e]

Panic(e) == [ok |-> FALSE, panic |-> TRUE, err |-> e]

None == <<>>

Some(x) == <<x>>

(***************************************************************************)
(* Text helpers.                                                           *)
(***************************************************************************)
RECURSIVE Concat(_)
\* the concatenation of a sequence of sequences (Iterator::concat)
Concat(ss) ==
    IF ss = <<>> THEN <<>> ELSE Head(ss) \o Concat(Tail(ss))

\* str::repeat
Repeat(ch, n) == [i \in 1..n |-> ch]

\* StartsWith as a comparison of the common prefix only: a prefix longer
\* than the text is accepted (used to test C10_OutOfRange)
StartsWithCommonPrefix(s, prefix) ==
    \A i \in 1..(IF Len(prefix) <= Len(s) THEN Len(prefix) ELSE Len(s)) :
        s[i] = prefix[i]

\* str::starts_with
StartsWith(s, prefix) ==
    /\ Len(prefix) <= Len(s)
    /\ \A i \in 1..Len(prefix) : s[i] = prefix[i]

\* the position of the first `sep` in s, 0 when there is none
IndexOf(s, sep) ==
    IF \E i \in 1..Len(s) : s[i] = sep
    THEN CHOOSE i \in 1..Len(s) : s[i] = sep /\ \A j \in 1..(i - 1) : s[j] # sep
    ELSE 0

RECURSIVE Split(_, _)
\* str::split(sep).collect(): adjacent separators yield empty parts, and a
\* text without separator yields one part
Split(s, sep) ==
    LET i == IndexOf(s, sep)
    IN  IF i = 0 THEN <<s>>
        ELSE <<SubSeq(s, 1, i - 1)>> \o Split(SubSeq(s, i + 1, Len(s)), sep)

DigitChars == <<"0", "1", "2", "3", "4", "5", "6", "7", "8", "9">>

IsDigit(ch) == \E i \in 1..10 : DigitChars[i] = ch

DigitVal(ch) == (CHOOSE i \in 1..10 : DigitChars[i] = ch) - 1

RECURSIVE FormatDecimal(_)
\* "{}" of an unsigned integer
FormatDecimal(n) ==
    IF n < 10 THEN <<DigitChars[n + 1]>>
    ELSE FormatDecimal(n \div 10) \o <<DigitChars[(n % 10) + 1]>>

\* "%y", "%m", ...: two digits, zero padded
Format2(n) == <<DigitChars[(n \div 10) + 1], DigitChars[(n % 10) + 1]>>

(***************************************************************************)
(* Base64, the STANDARD engine: the RFC 4648 alphabet, '=' padding written *)
(* by encode and required in canonical form by decode, and the unused      *)
(* trailing bits of the last symbol required to be zero.                   *)
(***************************************************************************)
B64Alphabet ==
    << "A", "B", "C", "D", "E", "F", "G", "H", "I", "J", "K", "L", "M",
       "N", "O", "P", "Q", "R", "S", "T", "U", "V", "W", "X", "Y", "Z",
       "a", "b", "c", "d", "e", "f", "g", "h", "i", "j", "k", "l", "m",
       "n", "o", "p", "q", "r", "s", "t", "u", "v", "w", "x", "y", "z",
       "0", "1", "2", "3", "4", "5", "6", "7", "8", "9", "+", "/" >>

IsB64Symbol(ch) == \E i \in 1..64 : B64Alphabet[i] = ch

B64Value(ch) == (CHOOSE i \in 1..64 : B64Alphabet[i] = ch) - 1

B64Symbol(v) == B64Alphabet[v + 1]

RECURSIVE B64Encode(_)
\* STANDARD.encode
B64Encode(bytes) ==
    IF Len(bytes) = 0 THEN <<>>
    ELSE IF Len(bytes) = 1 THEN
        << B64Symbol(bytes[1] \div 4), B64Symbol((bytes[1] % 4) * 16), "=", "=" >>
    ELSE IF Len(bytes) = 2 THEN
        << B64Symbol(bytes[1] \div 4),
           B64Symbol((bytes[1] % 4) * 16 + bytes[2] \div 16),
           B64Symbol((bytes[2] % 16) * 4), "=" >>
    ELSE
        << B64Symbol(bytes[1] \div 4),
           B64Symbol((bytes[1] % 4) * 16 + bytes[2] \div 16),
           B64Symbol((bytes[2] % 16) * 4 + bytes[3] \div 64),
           B64Symbol(bytes[3] % 64) >>
        \o B64Encode(SubSeq(bytes, 4, Len(bytes)))

RECURSIVE B64DecodeSymbols(_)
\* the bytes of a run of symbols whose length is 0, 2 or 3 modulo 4
B64DecodeSymbols(t) ==
    IF Len(t) = 0 THEN <<>>
    ELSE IF Len(t) = 2 THEN
        << B64Value(t[1]) * 4 + B64Value(t[2]) \div 16 >>
    ELSE IF Len(t) = 3 THEN
        << B64Value(t[1]) * 4 + B64Value(t[2]) \div 16,
           (B64Value(t[2]) % 16) * 16 + B64Value(t[3]) \div 4 >>
    ELSE
        << B64Value(t[1]) * 4 + B64Value(t[2]) \div 16,
           (B64Value(t[2]) % 16) * 16 + B64Value(t[3]) \div 4,
           (B64Value(t[3]) % 4) * 64 + B64Value(t[4]) >>
        \o B64DecodeSymbols(SubSeq(t, 5, Len(t)))

\* the number of '=' at the end of t
B64Padding(t) ==
    IF Len(t) >= 1 /\ t[Len(t)] = "="
    THEN IF Len(t) >= 2 /\ t[Len(t) - 1] = "="
         THEN IF Len(t) >= 3 /\ t[Len(t) - 2] = "=" THEN 3 ELSE 2
         ELSE 1
    ELSE 0

\* STANDARD.decode: Ok(bytes), or Err for a length that is no multiple of
\* four, a symbol outside the alphabet, misplaced or missing padding, or
\* non-zero trailing bits
B64Decode(t) ==
    LET pad  == B64Padding(t)
        body == SubSeq(t, 1, Len(t) - pad)
        last == body[Len(body)]
    IN  IF \/ Len(t) % 4 # 0
           \/ pad > 2
           \/ \E i \in 1..Len(body) : ~IsB64Symbol(body[i])
           \/ pad = 2 /\ B64Value(last) % 16 # 0
           \/ pad = 1 /\ B64Value(last) % 4 # 0
        THEN Err("base64")
        ELSE Ok(B64DecodeSymbols(body))

(***************************************************************************)
(* Integers of the program.                                                *)
(***************************************************************************)
RECURSIVE DecimalValue(_)
\* the value of a run of decimal digits
DecimalValue(ds) ==
    IF ds = <<>> THEN 0
    ELSE DecimalValue(SubSeq(ds, 1, Len(ds) - 1)) * 10 + DigitVal(ds[Len(ds)])

RECURSIVE StripZeros(_, _)
\* s without its leading `zero`s
StripZeros(s, zero) ==
    IF s # <<>> /\ Head(s) = zero THEN StripZeros(Tail(s), zero) ELSE s

\* str::parse::<u8>: an optional '+', then decimal digits whose value fits
ParseU8(s) ==
    LET ds  == IF Len(s) > 1 /\ s[1] = "+" THEN Tail(s) ELSE s
        sig == StripZeros(ds, "0")
    IN  IF \/ ds = <<>>
           \/ \E i \in 1..Len(ds) : ~IsDigit(ds[i])
           \/ Len(sig) > 3
           \/ DecimalValue(sig) > U8Max
        THEN Err("u8")
        ELSE Ok(DecimalValue(sig))

\* the usize 0
UsizeZero == Repeat(0, UsizeBits)

\* usize::MAX
UsizeMax == Repeat(1, UsizeBits)

RECURSIVE BitsOf(_)
\* the binary digits of a number n, none for 0
BitsOf(n) == IF n = 0 THEN <<>> ELSE BitsOf(n \div 2) \o <<n % 2>>

\* the usize of a small number n
Usize(n) == Repeat(0, UsizeBits - Len(BitsOf(n))) \o BitsOf(n)

\* a < b on machine words
UsizeLt(a, b) ==
    \E i \in 1..UsizeBits :
        /\ a[i] < b[i]
        /\ \A j \in 1..(i - 1) : a[j] = b[j]

\* a + 1 modulo 2^UsizeBits
WrappingInc(w) ==
    IF w = UsizeMax THEN UsizeZero
    ELSE LET p == CHOOSE i \in 1..UsizeBits :
                      w[i] = 0 /\ \A j \in (i + 1)..UsizeBits : w[j] = 1
         IN  [i \in 1..UsizeBits |->
                 IF i < p THEN w[i] ELSE IF i = p THEN 1 ELSE 0]

\* format!("{:b}", n): the binary digits without leading zeros, "0" for zero
FormatBinary(w) ==
    LET sig == StripZeros(w, 0)
    IN  IF sig = <<>> THEN <<"0">>
        ELSE [i \in 1..Len(sig) |-> DigitChars[sig[i] + 1]]

\* the ASCII bytes of a text of binary digits (String::as_bytes)
AsciiBytes(s) == [i \in 1..Len(s) |-> 48 + DigitVal(s[i])]

\* usize::from_str_radix(std::str::from_utf8(bytes), 2), both unwrapped by
\* the caller: Ok(word) for an optional '+' followed by at least one binary
\* digit whose value fits a usize; Err otherwise (bytes that are no UTF-8
\* fail in from_utf8, the others in from_str_radix)
FromStrRadix2(bytes) ==
    LET ds  == IF Len(bytes) > 1 /\ bytes[1] = 43 THEN Tail(bytes) ELSE bytes
        sig == StripZeros(ds, 48)
    IN  IF \E i \in 1..Len(bytes) : bytes[i] > 127 THEN Err("Utf8Error")
        ELSE IF ds = <<>> THEN Err("Empty")
        ELSE IF \E i \in 1..Len(ds) : ds[i] \notin {48, 49} THEN Err("InvalidDigit")
        ELSE IF Len(sig) > UsizeBits THEN Err("PosOverflow")
        ELSE Ok(Repeat(0, UsizeBits - Len(sig))
                \o [i \in 1..Len(sig) |-> sig[i] - 48])

(***************************************************************************)
(* chrono: DateTime<Utc> at second precision, Duration in seconds, and the *)
(* format DATE_FORMAT = "%y%m%d%H%M%S".                                    *)
(***************************************************************************)
SecondsPerDay == 86400

\* days since 1970-01-01 of the proleptic Gregorian date y-m-d
DaysFromCivil(y, m, d) ==
    LET yy  == IF m <= 2 THEN y - 1 ELSE y
        era == yy \div 400
        yoe == yy - era * 400
        mp  == IF m > 2 THEN m - 3 ELSE m + 9
        doy == (153 * mp + 2) \div 5 + d - 1
        doe == yoe * 365 + yoe \div 4 - yoe \div 100 + doy
    IN  era * 146097 + doe - 719468

\* the date <<y, m, d>> of a day number
CivilFromDays(days) ==
    LET z   == days + 719468
        era == z \div 146097
        doe == z - era * 146097
        yoe == (doe - doe \div 1460 + doe \div 36524 - doe \div 146096) \div 365
        doy == doe - (365 * yoe + yoe \div 4 - yoe \div 100)
        mp  == (5 * doy + 2) \div 153
        d   == doy - (153 * mp + 2) \div 5 + 1
        m   == IF mp < 10 THEN mp + 3 ELSE mp - 9
        y   == yoe + era * 400
    IN  << IF m <= 2 THEN y + 1 ELSE y, m, d >>

IsLeapYear(y) == y % 4 = 0 /\ (y % 100 # 0 \/ y % 400 = 0)

DaysInMonth(y, m) ==
    IF m = 2 THEN (IF IsLeapYear(y) THEN 29 ELSE 28)
    ELSE IF m \in {4, 6, 9, 11} THEN 30 ELSE 31

\* NaiveDate::and_hms, and_utc
DateTime(y, m, d, hh, mm, ss) ==
    [days |-> DaysFromCivil(y, m, d), secs |-> (hh * 60 + mm) * 60 + ss]

\* DateTime + Duration
AddDuration(dt, seconds) ==
    LET total == dt.secs + seconds
    IN  [days |-> dt.days + total \div SecondsPerDay,
         secs |-> total % SecondsPerDay]

\* DateGe as a strict comparison (used to test C5_ExpiryBoundary)
DateGt(a, b) == a.days > b.days \/ (a.days = b.days /\ a.secs > b.secs)

\* DateTime >= DateTime
DateGe(a, b) == a.days > b.days \/ (a.days = b.days /\ a.secs >= b.secs)

\* creation_date.format(DATE_FORMAT): "%y" is the year modulo 100
FormatDate(dt) ==
    LET ymd == CivilFromDays(dt.days)
    IN  Format2(ymd[1] % 100) \o Format2(ymd[2]) \o Format2(ymd[3])
        \o Format2(dt.secs \div 3600) \o Format2((dt.secs \div 60) % 60)
        \o Format2(dt.secs % 60)

RECURSIVE ScanNumbers(_, _)
\* k numeric items in a row, each taking two digits when two follow and one
\* otherwise; ok only when the whole text is consumed (leading white space,
\* which chrono skips, is not in the alphabet of the model's texts)
ScanNumbers(s, k) ==
    IF k = 0 THEN [ok |-> s = <<>>, vals |-> <<>>]
    ELSE LET w == IF Len(s) >= 2 /\ IsDigit(s[1]) /\ IsDigit(s[2]) THEN 2
                  ELSE IF Len(s) >= 1 /\ IsDigit(s[1]) THEN 1 ELSE 0
         IN  IF w = 0 THEN [ok |-> FALSE, vals |-> <<>>]
             ELSE LET r == ScanNumbers(SubSeq(s, w + 1, Len(s)), k - 1)
                  IN  [ok |-> r.ok,
                       vals |-> <<DecimalValue(SubSeq(s, 1, w))>> \o r.vals]

\* NaiveDateTime::parse_from_str(s, DATE_FORMAT).and_utc(): a two-digit year
\* below 70 is 20yy, otherwise 19yy (second 60, chrono's leap second, is
\* not among the model's texts and is refused here)
ParseDate(s) ==
    LET r    == ScanNumbers(s, 6)
        v    == r.vals
        year == IF v[1] < 70 THEN 2000 + v[1] ELSE 1900 + v[1]
    IN  IF ~r.ok THEN Err("date")
        ELSE IF \/ v[2] \notin 1..12
                \/ v[3] \notin 1..DaysInMonth(year, v[2])
                \/ v[4] > 23 \/ v[5] > 59 \/ v[6] > 59
        THEN Err("date")
        ELSE Ok(DateTime(year, v[2], v[3], v[4], v[5], v[6]))

(***************************************************************************)
(* Stamp and its canonical text form.                                      *)
(***************************************************************************)
\* enum FormatVersion
FormatVersion == {"V0", "V1"}

\* impl Display for FormatVersion
FormatVersionText(v) == IF v = "V0" THEN <<"0">> ELSE <<"1">>

\* the struct literal of Stamp
Stamp(version, requested_bits, creation_date, resource, extension, salt, counter) ==
    [version |-> version, requested_bits |-> requested_bits,
     creation_date |-> creation_date, resource |-> resource,
     extension |-> extension, salt |-> salt, counter |-> counter]

\* Stamp::new, with the salt drawn and the clock read by the caller
new(version, requested_bits, resource, extension, salt, clock) ==
    Stamp(version, requested_bits, clock, resource, extension, salt, UsizeZero)

\* Option<String>::unwrap_or_default
UnwrapOrDefault(opt) == IF opt = None THEN <<>> ELSE opt[1]

\* impl Display for Stamp: always seven fields, an absent extension written
\* as the empty string
to_string(self) ==
    Concat(<< FormatVersionText(self.version), <<":">>,
              FormatDecimal(self.requested_bits), <<":">>,
              FormatDate(self.creation_date), <<":">>,
              self.resource, <<":">>,
              UnwrapOrDefault(self.extension), <<":">>,
              B64Encode(self.salt), <<":">>,
              B64Encode(AsciiBytes(FormatBinary(self.counter))) >>)

\* parts[0] matched against "0" and "1"
ParseVersion(part) ==
    IF part = <<"0">> THEN Ok("V0")
    ELSE IF part = <<"1">> THEN Ok("V1")
    ELSE Err("Invalid version")

\* the extension is taken from parts[4] only when there are more than six
ParseExtension(parts) ==
    IF Len(parts) > MinParts THEN Some(parts[5]) ELSE None

\* SaltPart counted from the front, as in a text of seven parts (used to
\* test C8_Positional)
SaltPartFromFront(parts) == parts[6]

\* the salt is the second to last part
SaltPart(parts) == parts[Len(parts) - 1]

\* the counter is the last part
CounterPart(parts) == parts[Len(parts)]

\* the counter: an Err of STANDARD.decode is returned, an Err of from_utf8 or
\* of from_str_radix is unwrapped
ParseCounter(part) ==
    LET bytes == B64Decode(part)
    IN  IF ~bytes.ok THEN Err("Invalid counter")
        ELSE LET n == FromStrRadix2(bytes.val)
             IN  IF n.ok THEN n ELSE Panic(n.err)

\* impl TryFrom<String> for Stamp
try_from(value) ==
    LET parts         == Split(value, ":")
        version       == ParseVersion(parts[1])
        requested_bits == ParseU8(parts[2])
        creation_date == ParseDate(parts[3])
        resource      == parts[4]
        extension     == ParseExtension(parts)
        salt          == B64Decode(SaltPart(parts))
        counter       == ParseCounter(CounterPart(parts))
    IN  IF Len(parts) < MinParts THEN Err("Stamp is missing required fields")
        ELSE IF ~version.ok THEN version
        ELSE IF ~requested_bits.ok THEN Err("Invalid requested bits")
        ELSE IF ~creation_date.ok THEN Err("Invalid creation date")
        ELSE IF ~salt.ok THEN Err("Invalid salt")
        ELSE IF ~counter.ok THEN counter
        ELSE Ok(Stamp(version.val, requested_bits.val, creation_date.val,
                      resource, extension, salt.val, counter.val))

(***************************************************************************)
(* The digest and the difficulty predicate.                                *)
(***************************************************************************)
\* format!("{:08b}", byte)
Format08b(byte) ==
    [i \in 1..8 |-> DigitChars[((byte \div (2 ^ (8 - i))) % 2) + 1]]

\* digest().bytes().map(|byte| format!("{:08b}", byte)).concat()
BinaryDigits(digest) ==
    Concat([i \in 1..Len(digest) |-> Format08b(digest[i])])

\* get_requested_zeros
get_requested_zeros(self) == Repeat("0", self.requested_bits)

\* hash.starts_with(requested_zeros), of the digest of self.to_string()
Qualifies(self, digest) ==
    StartsWith(BinaryDigits(digest), get_requested_zeros(self))

\* the digest whose binary rendering is k zeros followed by ones
DigestWithZeros(k) ==
    [i \in 1..DigestBytes |->
        IF i <= k \div 8 THEN 0
        ELSE IF i = k \div 8 + 1 THEN 2 ^ (8 - (k % 8)) - 1
        ELSE 255]

(***************************************************************************)
(* Stamp::check, with the clock read and the digest computed by the        *)
(* caller.  The digest is only looked at after the first two tests.        *)
(***************************************************************************)
ResourceMismatch == "The stamp resource doesn't match the expected resource."

Expired == "Stamp has expired."

InsufficientWork == "Stamp isn't producing hash with expected zero bit count."

\* CheckEarly with the expiry tested before the resource (used to test
\* C4_CheckOrder)
CheckEarlyExpiryFirst(self, resource, expiry_duration, clock) ==
    IF DateGe(clock, AddDuration(self.creation_date, expiry_duration))
    THEN Some(Err(Expired))
    ELSE IF resource # self.resource THEN Some(Err(ResourceMismatch))
    ELSE None

\* the first two tests of check: <<>> when both pass
CheckEarly(self, resource, expiry_duration, clock) ==
    IF resource # self.resource THEN Some(Err(ResourceMismatch))
    ELSE IF DateGe(clock, AddDuration(self.creation_date, expiry_duration))
    THEN Some(Err(Expired))
    ELSE None

\* CheckWork asking for one zero bit more than mint does (used to test
\* C3_MintedPasses)
CheckWorkOneMore(self, digest) ==
    IF ~StartsWith(BinaryDigits(digest), Repeat("0", self.requested_bits + 1))
    THEN Err(InsufficientWork)
    ELSE Ok(self)

\* the last test of check
CheckWork(self, digest) ==
    IF ~Qualifies(self, digest) THEN Err(InsufficientWork) ELSE Ok(self)

\* Stamp::check
check(self, resource, expiry_duration, clock, digest) ==
    LET early == CheckEarly(self, resource, expiry_duration, clock)
    IN  IF early # None THEN early[1] ELSE CheckWork(self, digest)

(***************************************************************************)
(* The inputs the environment supplies.                                    *)
(***************************************************************************)
\* the example text of main
FixtureText ==
    << "1", ":", "1", "6", ":",
       "2", "4", "0", "5", "2", "5", "1", "2", "0", "4", "0", "6", ":",
       "2", "0", "2", "1", "7", "8", "0", "@", "u", "n", "i", "-", "w", "u",
       "p", "p", "e", "r", "t", "a", "l", ".", "d", "e", ":", ":",
       "N", "F", "s", "/", "A", "w", "R", "q", "L", "g", "R", "F", "o", "C",
       "X", "R", "I", "7", "a", "a", "j", "w", "=", "=", ":",
       "M", "T", "E", "x", "M", "T", "A", "w", "M", "T", "E", "w", "M", "T",
       "E", "x", "M", "T", "E", "w", "M", "D", "E", "x", "M", "D", "A", "w",
       "M", "D", "A", "w" >>

\* 2024-05-25T12:04:06Z, the creation date of the example text
FixtureDate == DateTime(2024, 5, 25, 12, 4, 6)

\* the 16 bytes of the example text's salt
FixtureSalt ==
    <<52, 91, 63, 3, 4, 106, 46, 4, 69, 160, 37, 209, 35, 182, 154, 143>>

ResourceChoices == { <<"a">>, <<"b", "@", "c">> }

ExtensionChoices == { None, Some(<<>>), Some(<<"x">>) }

SaltChoices == { Repeat(0, SaltLen), FixtureSalt }

\* requested_bits given to Stamp::new
BitsChoices == {0, 2, 3, 160, 161, U8Max}

\* the stamps a sender builds before minting: <<version, requested_bits,
\* resource, extension, salt>>
MintedArgs ==
    {"V1"} \X BitsChoices \X ResourceChoices \X {None} \X {FixtureSalt}

\* the stamps a sender builds before writing them as text
WrittenArgs ==
    FormatVersion \X {0, 16, U8Max} \X ResourceChoices \X ExtensionChoices
        \X SaltChoices

\* the digests the hash may produce: this many leading zero bits, then ones
ZeroRuns == {0, 2, 160}

Digests == { DigestWithZeros(k) : k \in ZeroRuns }

\* expiry durations in seconds (Duration::days(2) is the one of main)
DurationChoices == {-1, 0, 1, 2 * SecondsPerDay}

\* the seconds by which the clock may advance in one step
TickChoices == {1, 2 * SecondsPerDay - 1}

RECURSIVE Join(_)
\* the parts joined by ':'
Join(parts) ==
    IF Len(parts) = 1 THEN parts[1]
    ELSE parts[1] \o <<":">> \o Join(Tail(parts))

\* a well-formed text of seven parts, and the parts' alternatives
GoodParts ==
    << <<"1">>, <<"2">>,
       <<"2", "4", "0", "5", "2", "5", "1", "2", "0", "4", "0", "6">>,
       <<"a">>, <<>>, B64Encode(Repeat(0, SaltLen)), <<"M", "A", "=", "=">> >>

MaxCounterPart == B64Encode(AsciiBytes(FormatBinary(UsizeMax)))

Alternatives ==
    << { <<"0">>, <<"2">>, <<>> },
       { <<"2", "5", "5">>, <<"2", "5", "6">>, <<"x">> },
       { <<"2", "4", "1", "3", "2", "5", "1", "2", "0", "4", "0", "6">>,
         <<"2", "4", "0", "5", "2", "5", "1", "2", "0", "4">>,
         <<"7", "0", "0", "1", "0", "1", "0", "0", "0", "0", "0", "0">> },
       { <<"b", "@", "c">> },
       { <<"x">> },
       { <<"!", "!", "!", "!">>, <<"A", "A", "=", "=">>, <<"A", "B", "=", "=">>, <<>> },
       { <<"M", "T", "A", "x">>, <<"M", "g", "=", "=">>, <<"K", "z", "E", "=">>,
         <<"/", "w", "=", "=">>, <<"M", "A">>, <<>>, MaxCounterPart } >>

\* texts of fewer and of more than seven parts
OtherPartCounts ==
    { <<>>,
      Join(<<GoodParts[1], GoodParts[2], GoodParts[3], GoodParts[4], GoodParts[7]>>),
      Join(<<GoodParts[1], GoodParts[2], GoodParts[3], GoodParts[4],
             GoodParts[6], GoodParts[7]>>),
      Join(<<GoodParts[1], GoodParts[2], GoodParts[3], GoodParts[4],
             <<"x">>, <<"y">>, GoodParts[6], GoodParts[7]>>) }

\* texts whose counter is usize::MAX
MaxCounterTexts ==
    { Join([GoodParts EXCEPT ![2] = bits, ![7] = MaxCounterPart]) :
        bits \in { <<"3">>, <<"2", "5", "5">> } }

\* the texts handed to try_from
WireTexts ==
    { Join(GoodParts), FixtureText }
    \cup UNION { { Join([GoodParts EXCEPT ![i] = v]) : v \in Alternatives[i] } :
                 i \in 1..7 }
    \cup OtherPartCounts
    \cup MaxCounterTexts

\* the texts a minter receives: a fresh stamp, and two at usize::MAX
MintedTexts == { Join(GoodParts) } \cup MaxCounterTexts

(***************************************************************************)
(* The state.                                                              *)
(***************************************************************************)
VARIABLES
    build,      \* "debug": `+=` panics on overflow; "release": it wraps
    now,        \* the wall clock, Utc::now()
    ticks,      \* how often the clock was advanced
    sha1,       \* the digests computed so far: pairs <<text, digest>>
    pc,         \* where the caller is: "start", "built", "minting",
                \* "returned", "sent", "received", "checked", "rejected",
                \* "panicked"
    stamp,      \* the Stamp in hand, an Option
    origin,     \* "none", "new" or "parsed": how `stamp` was constructed
    input,      \* the Stamp mint was called on, an Option
    steps,      \* the iterations of mint's loop so far
    parsed,     \* the last call of try_from: Some([value, result])
    checked,    \* the call of check: Some([call, result])
    sent        \* the Stamp whose text was written, an Option

vars ==
    << build, now, ticks, sha1, pc, stamp, origin, input, steps, parsed,
       checked, sent >>

Init ==
    /\ build \in {"debug", "release"}
    /\ now = FixtureDate
    /\ ticks = 0
    /\ sha1 = {}
    /\ pc = "start"
    /\ stamp = None
    /\ origin = "none"
    /\ input = None
    /\ steps = 0
    /\ parsed = None
    /\ checked = None
    /\ sent = None

\* the digests sha1_smol may return for `text`: the one it returned before,
\* or any digest when the text is hashed for the first time
Sha1Outcomes(text) ==
    IF \E h \in sha1 : h[1] = text
    THEN { h[2] : h \in { g \in sha1 : g[1] = text } }
    ELSE Digests

\* a Stamp is in hand and no call is running
Idle == pc \in {"built", "returned", "received"}

\* the caller has stopped
Stopped == pc \in {"checked", "rejected", "panicked"}

(***************************************************************************)
(* The operations.                                                         *)
(***************************************************************************)
\* Stamp::new(version, requested_bits, resource, extension)
Create(args) ==
    /\ pc = "start"
    /\ \E a \in args :
          stamp' = Some(new(a[1], a[2], a[3], a[4], a[5], now))
    /\ pc' = "built"
    /\ origin' = "new"
    /\ UNCHANGED <<build, now, ticks, sha1, input, steps, parsed, checked, sent>>

\* the caller's handling of Stamp::try_from(value)
TryFrom(value) ==
    LET result == try_from(value)
    IN  /\ parsed' = Some([value |-> value, result |-> result])
        /\ IF result.ok
           THEN stamp' = Some(result.val) /\ origin' = "parsed"
           ELSE stamp' = None /\ origin' = "none"
        /\ pc' = IF result.ok THEN (IF pc = "sent" THEN "received" ELSE "built")
                 ELSE IF result.panic THEN "panicked" ELSE "rejected"
        /\ UNCHANGED <<build, now, ticks, sha1, input, steps, checked, sent>>

\* Stamp::try_from of a text from outside
Parse(texts) ==
    /\ pc = "start"
    /\ \E value \in texts : TryFrom(value)

\* stamp.to_string(), handed to the transport
Send ==
    /\ Idle
    /\ sent = None
    /\ sent' = stamp
    /\ pc' = "sent"
    /\ UNCHANGED <<build, now, ticks, sha1, stamp, origin, input, steps, parsed, checked>>

\* Stamp::try_from of the text written by Send
Receive ==
    /\ pc = "sent"
    /\ TryFrom(to_string(sent[1]))

\* stamp.mint(): the call
MintCall ==
    /\ pc \in {"built", "received"}
    /\ input' = stamp
    /\ pc' = "minting"
    /\ UNCHANGED <<build, now, ticks, sha1, stamp, origin, steps, parsed, checked, sent>>

\* self.counter += 1: past usize::MAX a panic with overflow checks (the
\* debug profile), a wrap to 0 without (the release profile)
CounterIncrement(self) ==
    IF self.counter = UsizeMax
    THEN IF build = "debug"
         THEN Panic("attempt to add with overflow")
         ELSE Ok([self EXCEPT !.counter = UsizeZero])
    ELSE Ok([self EXCEPT !.counter = WrappingInc(self.counter)])

\* stamp.mint(): one iteration of the loop
MintLoop ==
    /\ pc = "minting"
    /\ steps < MaxMintSteps
    /\ steps' = steps + 1
    /\ \E digest \in Sha1Outcomes(to_string(stamp[1])) :
          /\ sha1' = sha1 \cup { <<to_string(stamp[1]), digest>> }
          /\ IF Qualifies(stamp[1], digest)
             THEN /\ pc' = "returned"
                  /\ stamp' = stamp
             ELSE LET next == CounterIncrement(stamp[1])
                  IN  IF next.ok
                      THEN pc' = "minting" /\ stamp' = Some(next.val)
                      ELSE pc' = "panicked" /\ stamp' = stamp
    /\ UNCHANGED <<build, now, ticks, origin, input, parsed, checked, sent>>

\* stamp.check(resource, &expiry_duration)
Check ==
    /\ Idle
    /\ pc' = "checked"
    /\ \E resource \in ResourceChoices, expiry_duration \in DurationChoices :
          LET self  == stamp[1]
              call  == [self |-> self, resource |-> resource,
                        expiry_duration |-> expiry_duration, clock |-> now,
                        minted |-> pc = "returned"]
          IN  IF CheckEarly(self, resource, expiry_duration, now) # None
              THEN /\ checked' = Some([call |-> call, result |->
                          check(self, resource, expiry_duration, now, <<>>)])
                   /\ sha1' = sha1
              ELSE \E digest \in Sha1Outcomes(to_string(self)) :
                      /\ checked' = Some([call |-> call, result |->
                             check(self, resource, expiry_duration, now, digest)])
                      /\ sha1' = sha1 \cup { <<to_string(self), digest>> }
    /\ UNCHANGED <<build, now, ticks, stamp, origin, input, steps, parsed, sent>>

\* time passes
Tick ==
    /\ ~Stopped
    /\ ticks < MaxTicks
    /\ ticks' = ticks + 1
    /\ \E seconds \in TickChoices : now' = AddDuration(now, seconds)
    /\ UNCHANGED <<build, sha1, pc, stamp, origin, input, steps, parsed, checked, sent>>

\* a sender mints and a recipient checks
Next ==
    \/ Create(MintedArgs)
    \/ Parse(MintedTexts)
    \/ MintCall
    \/ MintLoop
    \/ Check
    \/ Tick

Spec == Init /\ [][Next]_vars

\* a stamp is written as text and read back; texts from outside are read
NextCodec ==
    \/ Create(WrittenArgs)
    \/ Parse(WireTexts)
    \/ Send
    \/ Receive

SpecCodec == Init /\ [][NextCodec]_vars

(***************************************************************************)
(* Vocabulary of the properties, stated apart from the operators above.    *)
(***************************************************************************)
\* the digest recorded for a text that was hashed
Sha1Of(text) == CHOOSE d \in Digests : <<text, d>> \in sha1

\* the digest's binary rendering starts with n '0' characters
LeadingZeros(digest, n) ==
    LET digits == BinaryDigits(digest)
    IN  n <= Len(digits) /\ \A i \in 1..n : digits[i] = "0"

\* b - a in seconds
SecondsBetween(a, b) == (b.days - a.days) * 86400 + (b.secs - a.secs)

\* the errors try_from returns
DecodeErrors ==
    { "Stamp is missing required fields", "Invalid version",
      "Invalid requested bits", "Invalid creation date", "Invalid salt",
      "Invalid counter" }

\* the call of try_from and its result, once made
ParsedCall == parsed[1]

\* the call of check and its result, once made
CheckedCall == checked[1].call

CheckedResult == checked[1].result

(***************************************************************************)
(* C1.  Round trip: decoding the text written for a Stamp succeeds and     *)
(* gives back every field, an absent extension included.  (Stated as the   *)
(* claim; the code does not satisfy it.)                                   *)
(***************************************************************************)
C1_RoundTrip ==
    (sent # None /\ pc # "sent") =>
        /\ ParsedCall.value = to_string(sent[1])
        /\ ParsedCall.result.ok
        /\ ParsedCall.result.val = sent[1]

(***************************************************************************)
(* C6.  Decoding is total: every call of try_from returns a Stamp or one   *)
(* of its errors, and never aborts.  (Stated as the claim; the code does   *)
(* not satisfy it.)                                                        *)
(***************************************************************************)
C6_DecodeTotal ==
    /\ pc # "panicked"
    /\ parsed # None =>
          \/ ParsedCall.result.ok
          \/ ParsedCall.result.err \in DecodeErrors

C8_Positional ==
    (parsed # None /\ ParsedCall.result.ok) =>
        LET parts == Split(ParsedCall.value, ":")
            n     == Len(parts)
            st    == ParsedCall.result.val
        IN  /\ n >= 6
            /\ FormatVersionText(st.version) = parts[1]
            /\ st.requested_bits = ParseU8(parts[2]).val
            /\ st.creation_date = ParseDate(parts[3]).val
            /\ st.resource = parts[4]
            /\ st.salt = B64Decode(parts[n - 1]).val
            /\ st.counter = FromStrRadix2(B64Decode(parts[n]).val).val
            /\ (n > 6) => st.extension = Some(parts[5])
            /\ (n = 6) => st.extension = None /\ st.salt = B64Decode(parts[5]).val

\* a text of six parts was decoded: its fifth part became the salt
C8_Witness ==
    /\ parsed # None
    /\ ParsedCall.result.ok
    /\ Len(Split(ParsedCall.value, ":")) = 6
    /\ ParsedCall.result.val.extension = None
    /\ ParsedCall.result.val.salt = Repeat(0, SaltLen)

(***************************************************************************)
(* C2.  Every iteration of mint's loop either returns the Stamp as it is,  *)
(* its digest starting with requested_bits zeros, or increases the counter *)
(* by exactly one.  (Stated as the claim; the code does not satisfy it at  *)
(* usize::MAX.)                                                            *)
(***************************************************************************)
C2_MintMonotone ==
    [][ (pc = "minting" /\ steps' = steps + 1) =>
          \/ /\ pc' = "returned"
             /\ stamp' = stamp
             /\ \E h \in sha1' :
                   /\ h[1] = to_string(stamp[1])
                   /\ LeadingZeros(h[2], stamp[1].requested_bits)
          \/ /\ pc' = "minting"
             /\ UsizeLt(stamp[1].counter, stamp'[1].counter)
             /\ stamp' = Some([stamp[1] EXCEPT !.counter = WrappingInc(@)]) ]_vars

(***************************************************************************)
(* C9.  When mint returns, the counter is the least one, not below the     *)
(* counter it was called with, whose digest qualifies, and no other field  *)
(* has changed.  (Stated as the claim; the code does not satisfy it at     *)
(* usize::MAX.)                                                            *)
(***************************************************************************)
RECURSIVE CountersFrom(_, _)
\* the counters from a up to, not including, b (a <= b, a few apart)
CountersFrom(a, b) ==
    IF a = b THEN {} ELSE {a} \cup CountersFrom(WrappingInc(a), b)

C9_LeastCounter ==
    pc = "returned" =>
        LET in  == input[1]
            out == stamp[1]
        IN  /\ out = [in EXCEPT !.counter = out.counter]
            /\ ~UsizeLt(out.counter, in.counter)
            /\ LeadingZeros(Sha1Of(to_string(out)), out.requested_bits)
            /\ \A c \in CountersFrom(in.counter, out.counter) :
                  ~LeadingZeros(Sha1Of(to_string([in EXCEPT !.counter = c])),
                                in.requested_bits)

(***************************************************************************)
(* C3.  A Stamp built by new and returned by mint passes check for its own *)
(* resource and any positive duration, as long as the clock is before      *)
(* creation_date + duration.                                               *)
(***************************************************************************)
C3_MintedPasses ==
    ( /\ checked # None
      /\ origin = "new"
      /\ CheckedCall.minted
      /\ CheckedCall.resource = CheckedCall.self.resource
      /\ CheckedCall.expiry_duration > 0
      /\ SecondsBetween(CheckedCall.self.creation_date, CheckedCall.clock)
            < CheckedCall.expiry_duration )
    => CheckedResult = Ok(CheckedCall.self)

\* a stamp that needed two increments to reach 3 zero bits was checked a
\* second after its creation
C3_Witness ==
    /\ checked # None
    /\ origin = "new"
    /\ CheckedCall.minted
    /\ CheckedCall.self.requested_bits = 3
    /\ CheckedCall.self.counter = Usize(2)
    /\ CheckedCall.resource = CheckedCall.self.resource
    /\ CheckedCall.expiry_duration = 2 * 86400
    /\ SecondsBetween(CheckedCall.self.creation_date, CheckedCall.clock) = 1
    /\ CheckedResult.ok

(***************************************************************************)
(* C4.  check tests the resource, then the expiry, then the work, and      *)
(* stops at the first test that fails.                                     *)
(***************************************************************************)
C4_CheckOrder ==
    checked # None =>
        LET self == CheckedCall.self
        IN  IF CheckedCall.resource # self.resource
            THEN CheckedResult = Err(ResourceMismatch)
            ELSE IF SecondsBetween(self.creation_date, CheckedCall.clock)
                        >= CheckedCall.expiry_duration
            THEN CheckedResult = Err(Expired)
            ELSE IF ~LeadingZeros(Sha1Of(to_string(self)), self.requested_bits)
            THEN CheckedResult = Err(InsufficientWork)
            ELSE CheckedResult = Ok(self)

\* an expired stamp was checked against another resource
C4_Witness ==
    /\ checked # None
    /\ CheckedCall.resource # CheckedCall.self.resource
    /\ SecondsBetween(CheckedCall.self.creation_date, CheckedCall.clock)
          >= CheckedCall.expiry_duration
    /\ CheckedResult = Err(ResourceMismatch)

(***************************************************************************)
(* C5.  For a matching resource, check answers Expired exactly when the    *)
(* clock is at or past creation_date + expiry_duration.                    *)
(***************************************************************************)
C5_ExpiryBoundary ==
    (checked # None /\ CheckedCall.resource = CheckedCall.self.resource) =>
        ( CheckedResult = Err(Expired)
          <=> SecondsBetween(CheckedCall.self.creation_date, CheckedCall.clock)
                 >= CheckedCall.expiry_duration )

\* a stamp was checked exactly two days after its creation, with two days
\* allowed
C5_Witness ==
    /\ checked # None
    /\ CheckedCall.resource = CheckedCall.self.resource
    /\ CheckedCall.expiry_duration = 2 * 86400
    /\ SecondsBetween(CheckedCall.self.creation_date, CheckedCall.clock)
          = CheckedCall.expiry_duration
    /\ CheckedResult = Err(Expired)

=============================================================================
